---------------------------- MODULE Spec2Model ----------------------------
(***************************************************************************)
(* file-shover: a static file server.  The module models                   *)
(*   - FileTree::get_reader (files.rs): the traversal guard and the join   *)
(*     of the request path onto the root directory,                        *)
(*   - get_mime_type (data.rs),                                            *)
(*   - Request::from_bytes, the Response builder and Response::write       *)
(*     (message.rs),                                                       *)
(*   - handle_client and the accept loop with its thread pool (main.rs).   *)
(* Text is modelled as sequences of one-character strings, so that         *)
(* stripping, splitting and searching are computed as the code computes    *)
(* them.                                                                   *)
(***************************************************************************)
EXTENDS Naturals, Sequences, FiniteSets, TLC

VARIABLES
    fs,        \* the filesystem: location (sequence of components) -> entry
    env,       \* per connection: what the peer does (bytes sent, how the
               \* stream ends, whether it reads, the writes it may accept)
    incoming,  \* connections listener.incoming() has still to yield
    queue,     \* jobs given to pool.spawn and not yet started
    worker,    \* per pool thread: the connection it handles, 0 when idle
    pc,        \* per connection: the handler's position
    req,       \* per connection: result of Request::from_bytes
    file,      \* per connection: result of FileTree::get_reader
    resp,      \* per connection: the Response built
    out,       \* per connection: bytes written to the socket
    log,       \* per connection: the operations performed, in order
    call       \* a single call of a pure function: argument and result

vars == <<fs, env, incoming, queue, worker, pc, req, file, resp, out, log, call>>

serverVars == <<env, incoming, queue, worker, pc, req, file, resp, out, log>>

(***************************************************************************)
(* Bounds of the model.                                                    *)
(***************************************************************************)
MaxPathLen == 5

(***************************************************************************)
(* Text.                                                                   *)
(***************************************************************************)
DOT == <<".">>
DOTDOT == <<".", ".">>
ext_html == <<"h", "t", "m", "l">>
ext_css == <<"c", "s", "s">>
ext_js == <<"j", "s">>
ext_jpg == <<"j", "p", "g">>
text_html == <<"t", "e", "x", "t", "/", "h", "t", "m", "l">>
text_css == <<"t", "e", "x", "t", "/", "c", "s", "s">>
text_javascript == <<"t", "e", "x", "t", "/", "j", "a", "v", "a", "s", "c", "r", "i", "p", "t">>
image_jpeg == <<"i", "m", "a", "g", "e", "/", "j", "p", "e", "g">>
text_plain == <<"t", "e", "x", "t", "/", "p", "l", "a", "i", "n">>

\* Op applied to the value of v: v is evaluated once, then handed to Op
Bind(v, Op(_)) == CHOOSE y \in {Op(x) : x \in {v}} : TRUE

\* str::starts_with
StartsWith(s, p) == Len(p) <= Len(s) /\ SubSeq(s, 1, Len(p)) = p

\* str::find: the index of the first occurrence of sub in s, 0 when none
FindIn(s, sub) ==
    LET hits == {i \in 1..(Len(s) + 1 - Len(sub)) : SubSeq(s, i, i + Len(sub) - 1) = sub}
    IN  IF Len(sub) > Len(s) \/ hits = {} THEN 0
        ELSE CHOOSE i \in hits : \A j \in hits : i <= j

Find(s, sub) == Bind(s, LAMBDA t : FindIn(t, sub))

\* str::contains
Contains(s, sub) == Find(s, sub) # 0

\* str::strip_prefix(ch).unwrap_or(s): at most one leading ch is removed
strip_prefix(s, ch) == IF s # <<>> /\ s[1] = ch THEN Tail(s) ELSE s

\* the pieces of s between occurrences of the character ch
RECURSIVE SplitOn(_, _)
SplitOn(s, ch) ==
    Bind(s, LAMBDA t :
        Bind(Find(t, <<ch>>), LAMBDA i :
            IF i = 0 THEN <<t>>
            ELSE <<SubSeq(t, 1, i - 1)>> \o SplitOn(SubSeq(t, i + 1, Len(t)), ch)))

RECURSIVE SelectComps(_)
\* Path::components: empty components and "." components are skipped
SelectComps(cs) ==
    IF cs = <<>> THEN <<>>
    ELSE IF Head(cs) = <<>> \/ Head(cs) = DOT THEN SelectComps(Tail(cs))
    ELSE <<Head(cs)>> \o SelectComps(Tail(cs))

Components(p) == SelectComps(SplitOn(p, "/"))

(***************************************************************************)
(* The filesystem the server runs on.  An entry is a regular file, a file  *)
(* the process may not read ("denied"), or a directory; a location without *)
(* entry is absent.  "/" is a directory.                                   *)
(***************************************************************************)
Absent == [kind |-> "absent", data |-> <<>>]

FsEntry(k, d) == IF k = "file" THEN [kind |-> k, data |-> d] ELSE [kind |-> k, data |-> <<>>]

Entry(fsys, comps) ==
    IF comps = <<>> THEN [kind |-> "dir", data |-> <<>>]
    ELSE IF comps \in DOMAIN fsys THEN fsys[comps]
    ELSE Absent

\* open(2) for reading, as std::fs::File::open calls it: the outcome and, on
\* success, the entry opened
File_open(fsys, loc) ==
    Bind(Components(loc), LAMBDA comps :
    Bind(SplitOn(loc, "/"), LAMBDA raw :
    LET trailing == raw[Len(raw)] = <<>> \/ raw[Len(raw)] = DOT
        bad == {i \in 1..(Len(comps) - 1) : Entry(fsys, SubSeq(comps, 1, i)).kind # "dir"}
        first == CHOOSE i \in bad : \A j \in bad : i <= j
        e == Entry(fsys, comps)
    IN  IF bad # {}
        THEN [ok |-> FALSE, entry |-> Absent,
              kind |-> IF Entry(fsys, SubSeq(comps, 1, first)).kind = "absent"
                       THEN "NotFound" ELSE "NotADirectory"]
        ELSE IF e.kind = "absent" THEN [ok |-> FALSE, kind |-> "NotFound", entry |-> Absent]
        ELSE IF e.kind = "denied"
        THEN [ok |-> FALSE, kind |-> "PermissionDenied", entry |-> Absent]
        ELSE IF e.kind = "file" /\ trailing
        THEN [ok |-> FALSE, kind |-> "NotADirectory", entry |-> Absent]
        ELSE [ok |-> TRUE, kind |-> "None", entry |-> e]))

(***************************************************************************)
(* files.rs                                                                *)
(***************************************************************************)
\* PathBuf::join: an absolute argument replaces the path joined onto
join(root, p) ==
    IF p # <<>> /\ p[1] = "/" THEN p
    ELSE IF root # <<>> /\ root[Len(root)] = "/" THEN root \o p
    ELSE root \o <<"/">> \o p

\* FileTree { root }
Root == <<"/", "r">>

ReaderErr(k, opened) ==
    [ok |-> FALSE, kind |-> k, opened |-> opened, data |-> <<>>, size |-> 0, pos |-> 0]

NoResult == ReaderErr("Pending", <<>>)

\* FileData { reader, metadata }: the open file and its length.  A directory
\* is no file to serve: an Io error.
FileData(h, opened) ==
    IF h.entry.kind = "dir" THEN ReaderErr("IsADirectory", opened)
    ELSE [ok |-> TRUE, kind |-> "None", opened |-> opened,
          data |-> h.entry.data, size |-> Len(h.entry.data), pos |-> 0]

\* the guard without its search for ".." inside the path
Guard_NoTraversalCheck(clean_path) ==
    IF clean_path = DOT \/ clean_path = DOTDOT THEN "Illegal path"
    ELSE IF clean_path = <<>> THEN "Empty path"
    ELSE ""

\* the traversal guard of get_reader: the error message, "" when the path passes
Guard(clean_path) ==
    IF clean_path = DOT \/ clean_path = DOTDOT THEN "Illegal path"
    ELSE IF clean_path = <<>> THEN "Empty path"
    ELSE IF Contains(clean_path, DOTDOT) THEN "Path traversal not allowed"
    ELSE ""

\* FileTree::get_reader.  opened lists the locations File::open was called on.
get_reader(root, fsys, path) ==
    Bind(strip_prefix(path, "/"), LAMBDA clean_path :
    Bind(join(root, clean_path), LAMBDA loc :
        IF Guard(clean_path) # "" THEN ReaderErr("InvalidInput", <<>>)
        ELSE Bind(File_open(fsys, loc), LAMBDA h :
                 IF ~h.ok THEN ReaderErr(h.kind, <<loc>>)
                 ELSE FileData(h, <<loc>>))))

(***************************************************************************)
(* data.rs                                                                 *)
(***************************************************************************)
\* Path::extension: of the last component, the part after its last ".",
\* unless the component has no "." or only a leading one.  some is FALSE
\* for None
RECURSIVE LastDot(_)
LastDot(name) ==
    IF name = <<>> THEN 0
    ELSE IF name[Len(name)] = "." THEN Len(name)
    ELSE LastDot(SubSeq(name, 1, Len(name) - 1))

extension(path) ==
    Bind(Components(path), LAMBDA cs :
    LET name == cs[Len(cs)]
        i == LastDot(name)
    IN  IF cs = <<>> \/ name = DOTDOT THEN [some |-> FALSE, ext |-> <<>>]
        ELSE IF i <= 1 THEN [some |-> FALSE, ext |-> <<>>]
        ELSE [some |-> TRUE, ext |-> SubSeq(name, i + 1, Len(name))])

\* get_mime_type; unwrap_or_default() makes a missing extension the empty one
get_mime_type(path) ==
    Bind(extension(path), LAMBDA e :
    Bind(IF e.some THEN e.ext ELSE <<>>, LAMBDA x :
        IF x = ext_html THEN "TextHtml"
        ELSE IF x = ext_css THEN "TextCss"
        ELSE IF x = ext_js THEN "TextJavascript"
        ELSE IF x = ext_jpg THEN "ImageJpeg"
        ELSE "TextPlain"))

\* MimeType::as_str
as_str(m) ==
    CASE m = "TextHtml" -> text_html
      [] m = "TextCss" -> text_css
      [] m = "TextJavascript" -> text_javascript
      [] m = "ImageJpeg" -> image_jpeg
      [] m = "TextPlain" -> text_plain

(***************************************************************************)
(* message.rs                                                              *)
(***************************************************************************)
GET == <<"G", "E", "T">>
HEAD == <<"H", "E", "A", "D">>
OPTIONS == <<"O", "P", "T", "I", "O", "N", "S">>
HEADER_SEP == <<":", " ">>
HTTP_1_1_SP == <<"H", "T", "T", "P", "/", "1", ".", "1", " ">>
S200 == <<"2", "0", "0", " ", "O", "K">>
S304 == <<"3", "0", "4", " ", "N", "o", "t", " ", "M", "o", "d", "i", "f", "i", "e", "d">>
S400 == <<"4", "0", "0", " ", "B", "a", "d", " ", "R", "e", "q", "u", "e", "s", "t">>
S403 == <<"4", "0", "3", " ", "F", "o", "r", "b", "i", "d", "d", "e", "n">>
S404 == <<"4", "0", "4", " ", "N", "o", "t", " ", "F", "o", "u", "n", "d">>
S405 ==
    <<"4", "0", "5", " ", "M", "e", "t", "h", "o", "d", " ", "N", "o", "t", " ", "A", "l", "l",
      "o", "w", "e", "d">>
S500 ==
    <<"5", "0", "0", " ", "I", "n", "t", "e", "r", "n", "a", "l", " ", "S", "e", "r", "v", "e",
      "r", " ", "E", "r", "r", "o", "r">>
H_Server == <<"S", "e", "r", "v", "e", "r">>
H_Connection == <<"C", "o", "n", "n", "e", "c", "t", "i", "o", "n">>
H_Content_Type == <<"C", "o", "n", "t", "e", "n", "t", "-", "T", "y", "p", "e">>
H_Content_Length == <<"C", "o", "n", "t", "e", "n", "t", "-", "L", "e", "n", "g", "t", "h">>
file_shover_1_0 == <<"f", "i", "l", "e", "-", "s", "h", "o", "v", "e", "r", "/", "1", ".", "0">>
close == <<"c", "l", "o", "s", "e">>
DEFAULT_BAD_REQUEST_BODY ==
    <<"<", "h", "1", ">", "4", "0", "0", " ", "B", "a", "d", " ", "R", "e", "q", "u", "e", "s",
      "t", "<", "/", "h", "1", ">">>
DEFAULT_NOT_FOUND_BODY ==
    <<"<", "h", "1", ">", "4", "0", "4", " ", "N", "o", "t", " ", "F", "o", "u", "n", "d", "<",
      "/", "h", "1", ">">>
DEFAULT_INTERNAL_ERROR_BODY ==
    <<"<", "h", "1", ">", "5", "0", "0", " ", "I", "n", "t", "e", "r", "n", "a", "l", " ", "S",
      "e", "r", "v", "e", "r", " ", "E", "r", "r", "o", "r", "<", "/", "h", "1", ">">>

\* char::is_ascii_whitespace, on the characters that occur
WhiteSpace == {" ", "\t", "\n", "\r"}

RECURSIVE trim_start(_)
trim_start(s) == IF s # <<>> /\ Head(s) \in WhiteSpace THEN trim_start(Tail(s)) ELSE s

RECURSIVE trim_end(_)
trim_end(s) ==
    IF s # <<>> /\ s[Len(s)] \in WhiteSpace THEN trim_end(SubSeq(s, 1, Len(s) - 1)) ELSE s

\* str::trim
trim(s) == trim_end(trim_start(s))

\* the length of the longest prefix of s without whitespace
RECURSIVE TokenLen(_)
TokenLen(s) == IF s = <<>> \/ Head(s) \in WhiteSpace THEN 0 ELSE 1 + TokenLen(Tail(s))

\* str::split_ascii_whitespace: the non-empty runs of non-whitespace
RECURSIVE split_ascii_whitespace(_)
split_ascii_whitespace(s) ==
    Bind(trim_start(s), LAMBDA t :
        Bind(TokenLen(t), LAMBDA n :
            IF t = <<>> THEN <<>>
            ELSE <<SubSeq(t, 1, n)>> \o split_ascii_whitespace(SubSeq(t, n + 1, Len(t)))))

\* BufRead::read_line on a stream that holds buf and then ends as ending says:
\* "open" (the peer sends nothing more and keeps the connection), "eof" (the
\* peer closed its side) or "err" (the read fails).  A line is returned as
\* soon as its "\n" has arrived.
read_line(buf, ending) ==
    Bind(Find(buf, <<"\n">>), LAMBDA i :
        IF i # 0
        THEN [st |-> "line", line |-> SubSeq(buf, 1, i), rest |-> SubSeq(buf, i + 1, Len(buf))]
        ELSE IF ending = "eof" THEN [st |-> "line", line |-> buf, rest |-> <<>>]
        ELSE IF ending = "err" THEN [st |-> "err", line |-> <<>>, rest |-> <<>>]
        ELSE [st |-> "blocked", line |-> <<>>, rest |-> <<>>])

\* BufRead::lines strips the "\n" of a line and a "\r" before it
strip_newline(line) ==
    IF line # <<>> /\ line[Len(line)] = "\n"
    THEN LET l == SubSeq(line, 1, Len(line) - 1)
         IN  IF l # <<>> /\ l[Len(l)] = "\r" THEN SubSeq(l, 1, Len(l) - 1) ELSE l
    ELSE line

\* from_str matching the names of the methods in either case
from_str_AnyCase(s) ==
    IF s = GET \/ s = <<"g", "e", "t">> THEN [ok |-> TRUE, method |-> "GET"]
    ELSE IF s = HEAD \/ s = <<"h", "e", "a", "d">> THEN [ok |-> TRUE, method |-> "HEAD"]
    ELSE IF s = OPTIONS THEN [ok |-> TRUE, method |-> "OPTIONS"]
    ELSE [ok |-> FALSE, method |-> "InvalidFormat"]

\* HttpMethod::from_str
from_str(s) ==
    IF s = GET THEN [ok |-> TRUE, method |-> "GET"]
    ELSE IF s = HEAD THEN [ok |-> TRUE, method |-> "HEAD"]
    ELSE IF s = OPTIONS THEN [ok |-> TRUE, method |-> "OPTIONS"]
    ELSE [ok |-> FALSE, method |-> "InvalidFormat"]

\* Display for HttpMethod
method_to_string(m) ==
    CASE m = "GET" -> GET
      [] m = "HEAD" -> HEAD
      [] m = "OPTIONS" -> OPTIONS

\* HashMap::new and HashMap::insert
EmptyMap == [k \in {} |-> <<>>]

\* an insert that keeps the value a key already has
insert_KeepFirst(map, k, v) ==
    Bind(map, LAMBDA m : [x \in (DOMAIN m) \cup {k} |-> IF x \in DOMAIN m THEN m[x] ELSE v])

insert(map, k, v) ==
    Bind(map, LAMBDA m : [x \in (DOMAIN m) \cup {k} |-> IF x = k THEN v ELSE m[x]])

RequestErr(e) ==
    [st |-> e, method |-> "", path |-> <<>>, http_version |-> <<>>, headers |-> EmptyMap]

RECURSIVE parse_headers_SkipMalformed(_, _, _)
\* the header loop passing over the lines that have no ": "
parse_headers_SkipMalformed(buf, ending, acc) ==
    Bind(read_line(buf, ending), LAMBDA r :
    Bind(strip_newline(r.line), LAMBDA line :
    Bind(Find(line, HEADER_SEP), LAMBDA i :
        IF r.st = "blocked" THEN [st |-> "Blocked", headers |-> acc]
        ELSE IF r.st = "err" THEN [st |-> "Ok", headers |-> acc]
        ELSE IF line = <<>> THEN [st |-> "Ok", headers |-> acc]
        ELSE IF i = 0 THEN parse_headers_SkipMalformed(r.rest, ending, acc)
        ELSE parse_headers_SkipMalformed(r.rest, ending,
                 insert(acc, SubSeq(line, 1, i - 1), SubSeq(line, i + 2, Len(line)))))))

\* the header loop of from_bytes: reader.lines().take_while(..).map(..).collect().
\* take_while ends the loop at an empty line, at the end of the stream and at a
\* read error alike; a line without ": " ends it with InvalidFormat.
RECURSIVE parse_headers(_, _, _)
parse_headers(buf, ending, acc) ==
    Bind(read_line(buf, ending), LAMBDA r :
    Bind(strip_newline(r.line), LAMBDA line :
    Bind(Find(line, HEADER_SEP), LAMBDA i :
        IF r.st = "blocked" THEN [st |-> "Blocked", headers |-> acc]
        ELSE IF r.st = "err" THEN [st |-> "Ok", headers |-> acc]
        ELSE IF line = <<>> THEN [st |-> "Ok", headers |-> acc]
        ELSE IF i = 0 THEN [st |-> "InvalidFormat", headers |-> acc]
        ELSE parse_headers(r.rest, ending,
                 insert(acc, SubSeq(line, 1, i - 1), SubSeq(line, i + 2, Len(line)))))))

\* from_bytes refusing a request line of more than three tokens
from_bytes_ExactlyThree(stream) ==
    Bind(read_line(stream.data, stream.ending), LAMBDA r :
    Bind(split_ascii_whitespace(trim(r.line)), LAMBDA parts :
    LET method == from_str(parts[1])
        h == parse_headers(r.rest, stream.ending, EmptyMap)
    IN  IF r.st = "blocked" THEN RequestErr("Blocked")
        ELSE IF r.st = "err" THEN RequestErr("Io")
        ELSE IF Len(parts) < 1 THEN RequestErr("InvalidFormat")
        ELSE IF ~method.ok THEN RequestErr("InvalidFormat")
        ELSE IF Len(parts) # 3 THEN RequestErr("InvalidFormat")
        ELSE IF h.st # "Ok" THEN RequestErr(h.st)
        ELSE [st |-> "Ok", method |-> method.method, path |-> parts[2],
              http_version |-> parts[3], headers |-> h.headers]))

\* from_bytes taking a request line of two tokens, with an empty version
from_bytes_NoVersion(stream) ==
    Bind(read_line(stream.data, stream.ending), LAMBDA r :
    Bind(split_ascii_whitespace(trim(r.line)), LAMBDA parts :
    LET method == from_str(parts[1])
        h == parse_headers(r.rest, stream.ending, EmptyMap)
    IN  IF r.st = "blocked" THEN RequestErr("Blocked")
        ELSE IF r.st = "err" THEN RequestErr("Io")
        ELSE IF Len(parts) < 1 THEN RequestErr("InvalidFormat")
        ELSE IF ~method.ok THEN RequestErr("InvalidFormat")
        ELSE IF Len(parts) < 2 THEN RequestErr("InvalidFormat")
        ELSE IF h.st # "Ok" THEN RequestErr(h.st)
        ELSE [st |-> "Ok", method |-> method.method, path |-> parts[2],
              http_version |-> IF Len(parts) < 3 THEN <<>> ELSE parts[3],
              headers |-> h.headers]))

\* Request::from_bytes.  st is "Ok", the error "Io" or "InvalidFormat", or
\* "Blocked" while the read has not returned.
from_bytes(stream) ==
    Bind(read_line(stream.data, stream.ending), LAMBDA r :
    Bind(split_ascii_whitespace(trim(r.line)), LAMBDA parts :
    LET method == from_str(parts[1])
        h == parse_headers(r.rest, stream.ending, EmptyMap)
    IN  IF r.st = "blocked" THEN RequestErr("Blocked")
        ELSE IF r.st = "err" THEN RequestErr("Io")
        ELSE IF Len(parts) < 1 THEN RequestErr("InvalidFormat")
        ELSE IF ~method.ok THEN RequestErr("InvalidFormat")
        ELSE IF Len(parts) < 2 THEN RequestErr("InvalidFormat")
        ELSE IF Len(parts) < 3 THEN RequestErr("InvalidFormat")
        ELSE IF h.st # "Ok" THEN RequestErr(h.st)
        ELSE [st |-> "Ok", method |-> method.method, path |-> parts[2],
              http_version |-> parts[3], headers |-> h.headers]))

\* HttpStatus::as_str
status_as_str(s) ==
    CASE s = "Ok" -> S200
      [] s = "NotModified" -> S304
      [] s = "BadRequest" -> S400
      [] s = "Forbidden" -> S403
      [] s = "NotFound" -> S404
      [] s = "MethodNotAllowed" -> S405
      [] s = "InternalServerError" -> S500

NoBody == [some |-> FALSE, bytes |-> <<>>]

\* Response::status
status(self, s) == [self EXCEPT !.status = s]

\* Response::header
header(self, name, value) ==
    Bind(self, LAMBDA r : [r EXCEPT !.headers = insert(r.headers, name, value)])

\* Response::body
body(self, b) == [self EXCEPT !.body = [some |-> TRUE, bytes |-> b]]

\* Response::content_type
content_type(self, mime_type) == header(self, H_Content_Type, mime_type)

\* Response::server
server(self, name) == header(self, H_Server, name)

\* usize::to_string: decimal digits
Digit(d) == <<"0", "1", "2", "3", "4", "5", "6", "7", "8", "9">>[d + 1]

RECURSIVE to_string(_)
to_string(n) == IF n < 10 THEN <<Digit(n)>> ELSE to_string(n \div 10) \o <<Digit(n % 10)>>

\* Response::content_length
content_length(self, n) == header(self, H_Content_Length, to_string(n))

\* Response::new() without the Connection header
Response_new_NoConnection ==
    server([status |-> "Ok", headers |-> EmptyMap, body |-> NoBody], file_shover_1_0)

\* Response::default and Response::new
Response_new ==
    header(server([status |-> "Ok", headers |-> EmptyMap, body |-> NoBody], file_shover_1_0),
           H_Connection, close)

\* the order in which a HashMap is iterated: that of the hashes of its keys,
\* given here as a ranking (a sequence) of the names that may be keys
RECURSIVE iter(_, _)
iter(map, hash) ==
    IF hash = <<>> THEN <<>>
    ELSE IF Head(hash) \in DOMAIN map THEN <<Head(hash)>> \o iter(map, Tail(hash))
    ELSE iter(map, Tail(hash))

RECURSIVE header_lines(_, _)
header_lines(map, names) ==
    IF names = <<>> THEN <<>>
    ELSE <<Head(names) \o HEADER_SEP \o map[Head(names)] \o <<"\n">>>>
         \o header_lines(map, Tail(names))

\* the writes of Response::write, in order: writeln! of the status line, of
\* each header, of the empty line, and write_all of the body
write_calls(self, hash) ==
    <<HTTP_1_1_SP \o status_as_str(self.status) \o <<"\n">>>>
    \o header_lines(self.headers, iter(self.headers, hash))
    \o <<<<"\n">>>>
    \o (IF self.body.some THEN <<self.body.bytes>> ELSE <<>>)

RECURSIVE Concat(_)
Concat(ss) == IF ss = <<>> THEN <<>> ELSE Head(ss) \o Concat(Tail(ss))

\* a write that passes over the write that failed and goes on with the rest
write_SkipFailed(self, hash, accepts) ==
    Bind(write_calls(self, hash), LAMBDA calls :
        LET n == IF accepts < Len(calls) THEN accepts ELSE Len(calls)
        IN  [attempted |-> TRUE, ok |-> accepts >= Len(calls), calls |-> n,
             bytes |-> Concat(SubSeq(calls, 1, n) \o SubSeq(calls, n + 2, Len(calls)))])

\* Response::write to a stream that takes `accepts` writes and fails the next:
\* the first failing write returns the error (the ? operator)
write(self, hash, accepts) ==
    Bind(write_calls(self, hash), LAMBDA calls :
        LET n == IF accepts < Len(calls) THEN accepts ELSE Len(calls)
        IN  [attempted |-> TRUE, ok |-> accepts >= Len(calls), calls |-> n,
             bytes |-> Concat(SubSeq(calls, 1, n))])

(***************************************************************************)
(* main.rs                                                                 *)
(***************************************************************************)
NumThreads == 2

Threads == 1..NumThreads

Conns == 1..Len(env)

\* the 400 response with the status of the 404 response
bad_request_response_NotFound ==
    body(content_length(content_type(status(Response_new, "NotFound"), text_html),
                        Len(DEFAULT_NOT_FOUND_BODY)),
         DEFAULT_BAD_REQUEST_BODY)

\* the 400 response of handle_client
bad_request_response ==
    body(content_length(content_type(status(Response_new, "BadRequest"), text_html),
                        Len(DEFAULT_NOT_FOUND_BODY)),
         DEFAULT_BAD_REQUEST_BODY)

\* the 404 response of handle_client
not_found_response ==
    body(content_length(content_type(status(Response_new, "NotFound"), text_html),
                        Len(DEFAULT_NOT_FOUND_BODY)),
         DEFAULT_NOT_FOUND_BODY)

\* the 500 response carrying the body of the 404 response
internal_error_response_NotFoundBody ==
    body(content_length(content_type(status(Response_new, "InternalServerError"), text_html),
                        Len(DEFAULT_INTERNAL_ERROR_BODY)),
         DEFAULT_NOT_FOUND_BODY)

\* the 500 response of handle_client
internal_error_response ==
    body(content_length(content_type(status(Response_new, "InternalServerError"), text_html),
                        Len(DEFAULT_INTERNAL_ERROR_BODY)),
         DEFAULT_INTERNAL_ERROR_BODY)

\* the 200 response with a fixed content type
ok_response_FixedType(path, f) ==
    body(content_length(content_type(status(Response_new, "Ok"), text_html), f.size),
         SubSeq(f.data, f.pos + 1, Len(f.data)))

\* the 200 response of handle_client: the body is the reader, read from its
\* position to the end of the file
ok_response(path, f) ==
    body(content_length(content_type(status(Response_new, "Ok"), as_str(get_mime_type(path))),
                        f.size),
         SubSeq(f.data, f.pos + 1, Len(f.data)))

\* the match without the test of the error kind
resolved_response_AllNotFound(path, f) ==
    IF ~f.ok THEN not_found_response ELSE ok_response(path, f)

\* the match with the 500 arm answering 403 Forbidden
resolved_response_Forbidden(path, f) ==
    IF ~f.ok
    THEN IF f.kind = "NotFound" THEN not_found_response
         ELSE status(internal_error_response, "Forbidden")
    ELSE ok_response(path, f)

\* the match on the result of get_reader
resolved_response(path, f) ==
    IF ~f.ok
    THEN IF f.kind = "NotFound" THEN not_found_response ELSE internal_error_response
    ELSE ok_response(path, f)

NoRequest == RequestErr("None")

NoResponse == [status |-> "None", headers |-> EmptyMap, body |-> NoBody]

NoOutput == [attempted |-> FALSE, ok |-> FALSE, calls |-> 0, bytes |-> <<>>]

NoCall == [fn |-> "none", arg |-> <<>>, done |-> FALSE, ret |-> NoResult]

\* listener.incoming() yields a connection; pool.spawn queues its handler
Accept ==
    /\ incoming > 0
    /\ LET c == Len(env) - incoming + 1
       IN  /\ pc' = [pc EXCEPT ![c] = "Queued"]
           /\ queue' = Append(queue, c)
    /\ incoming' = incoming - 1
    /\ UNCHANGED <<fs, env, worker, req, file, resp, out, log, call>>

\* listener.incoming() yields an error: it is printed, nothing is spawned
AcceptFailed ==
    /\ incoming > 0
    /\ LET c == Len(env) - incoming + 1
       IN  pc' = [pc EXCEPT ![c] = "Failed"]
    /\ incoming' = incoming - 1
    /\ UNCHANGED <<fs, env, queue, worker, req, file, resp, out, log, call>>

\* a pool thread taking a job while it still runs one
StartHandler_Busy(w) ==
    /\ queue # <<>>
    /\ worker' = [worker EXCEPT ![w] = Head(queue)]
    /\ queue' = Tail(queue)
    /\ pc' = [pc EXCEPT ![Head(queue)] = "AwaitingRequest"]
    /\ log' = [log EXCEPT ![Head(queue)] = <<"AwaitingRequest">>]
    /\ UNCHANGED <<fs, env, incoming, req, file, resp, out, call>>

\* a pool thread taking the oldest job and leaving it in the queue
StartHandler_NoDequeue(w) ==
    /\ worker[w] = 0
    /\ queue # <<>>
    /\ worker' = [worker EXCEPT ![w] = Head(queue)]
    /\ pc' = [pc EXCEPT ![Head(queue)] = "AwaitingRequest"]
    /\ log' = [log EXCEPT ![Head(queue)] = log[Head(queue)] \o <<"AwaitingRequest">>]
    /\ UNCHANGED <<fs, env, incoming, queue, req, file, resp, out, call>>

\* an idle pool thread takes the oldest job and calls handle_client
StartHandler(w) ==
    /\ worker[w] = 0
    /\ queue # <<>>
    /\ worker' = [worker EXCEPT ![w] = Head(queue)]
    /\ queue' = Tail(queue)
    /\ pc' = [pc EXCEPT ![Head(queue)] = "AwaitingRequest"]
    /\ log' = [log EXCEPT ![Head(queue)] = <<"AwaitingRequest">>]
    /\ UNCHANGED <<fs, env, incoming, req, file, resp, out, call>>

\* handle_client returning at a failed decode, without a response
after_decode_ReturnOnError(r) == IF r.st = "Ok" THEN "Resolving" ELSE "Closed"

\* handle_client going on to get_reader whatever from_bytes returned
after_decode_NoReturn(r) == "Resolving"

\* where handle_client goes when from_bytes has returned r
after_decode(r) == IF r.st = "Ok" THEN "Resolving" ELSE "BuildingResponse"

\* a read deadline: from_bytes returns an I/O error to a peer that stalls
Decode_Timeout(c) ==
    /\ pc[c] = "AwaitingRequest"
    /\ \E r \in {IF from_bytes(env[c]).st = "Blocked" THEN RequestErr("Io")
                  ELSE from_bytes(env[c])} :
           /\ req' = [req EXCEPT ![c] = r]
           /\ pc' = [pc EXCEPT ![c] = after_decode(r)]
           /\ log' = [log EXCEPT ![c] = log[c] \o <<"from_bytes", after_decode(r)>>]
    /\ UNCHANGED <<fs, env, incoming, queue, worker, file, resp, out, call>>

\* Request::from_bytes(&stream) returns
Decode(c) ==
    /\ pc[c] = "AwaitingRequest"
    /\ \E r \in {from_bytes(env[c])} :
           /\ r.st # "Blocked"
           /\ req' = [req EXCEPT ![c] = r]
           /\ pc' = [pc EXCEPT ![c] = after_decode(r)]
           /\ log' = [log EXCEPT ![c] = log[c] \o <<"from_bytes", after_decode(r)>>]
    /\ UNCHANGED <<fs, env, incoming, queue, worker, file, resp, out, call>>

\* file_tree.get_reader(&req.path)
ResolvePath(c) ==
    /\ pc[c] = "Resolving"
    /\ \E f \in {get_reader(Root, fs, req[c].path)} :
           /\ file' = [file EXCEPT ![c] = f]
           /\ log' = [log EXCEPT ![c] =
                         log[c] \o <<"get_reader">>
                         \o [i \in 1..Len(f.opened) |-> "File::open"]
                         \o <<"BuildingResponse">>]
    /\ pc' = [pc EXCEPT ![c] = "BuildingResponse"]
    /\ UNCHANGED <<fs, env, incoming, queue, worker, req, resp, out, call>>

\* a handler that answers HEAD with the headers and no body
built_response_HeadNoBody(r, f) ==
    IF r.st # "Ok" THEN bad_request_response
    ELSE IF r.method = "HEAD" THEN [resolved_response(r.path, f) EXCEPT !.body = NoBody]
    ELSE resolved_response(r.path, f)

\* the response handle_client builds
built_response(r, f) ==
    IF r.st # "Ok" THEN bad_request_response ELSE resolved_response(r.path, f)

\* Response::new() and the builder calls
BuildResponse(c) ==
    /\ pc[c] = "BuildingResponse"
    /\ resp' = [resp EXCEPT ![c] = built_response(req[c], file[c])]
    /\ pc' = [pc EXCEPT ![c] = "WritingResponse"]
    /\ log' = [log EXCEPT ![c] = log[c] \o <<"Response::new", "WritingResponse">>]
    /\ UNCHANGED <<fs, env, incoming, queue, worker, req, file, out, call>>

\* response.write(&mut stream) returns: its error is logged.  The write does
\* not return while the peer does not read.
WriteResponse(c) ==
    /\ pc[c] = "WritingResponse"
    /\ ~out[c].attempted
    /\ env[c].reads
    /\ \E a \in env[c].accepts, h \in env[c].hashes :
           out' = [out EXCEPT ![c] = write(resp[c], h, a)]
    /\ log' = [log EXCEPT ![c] = log[c] \o <<"write">>]
    /\ UNCHANGED <<fs, env, incoming, queue, worker, pc, req, file, resp, call>>

\* handle_client returning at a failed write, the socket left open
after_write_ReturnOnError(o) == IF o.ok THEN <<"shutdown", "Closed">> ELSE <<"Closed">>

\* what follows the write in handle_client, whatever its outcome o
after_write(o) == <<"shutdown", "Closed">>

\* handle_client returning without its pool thread becoming idle
Shutdown_KeepThread(c) ==
    /\ pc[c] = "WritingResponse"
    /\ out[c].attempted
    /\ pc' = [pc EXCEPT ![c] = "Closed"]
    /\ log' = [log EXCEPT ![c] = log[c] \o after_write(out[c])]
    /\ UNCHANGED <<fs, env, incoming, queue, worker, req, file, resp, out, call>>

\* stream.shutdown(Shutdown::Both), its error logged, and the return of
\* handle_client: the pool thread is idle again
Shutdown(c) ==
    /\ pc[c] = "WritingResponse"
    /\ out[c].attempted
    /\ pc' = [pc EXCEPT ![c] = "Closed"]
    /\ log' = [log EXCEPT ![c] = log[c] \o after_write(out[c])]
    /\ worker' = [w \in Threads |-> IF worker[w] = c THEN 0 ELSE worker[w]]
    /\ UNCHANGED <<fs, env, incoming, queue, req, file, resp, out, call>>

Next ==
    \/ Accept
    \/ AcceptFailed
    \/ \E w \in Threads : StartHandler(w)
    \/ \E c \in Conns : Decode(c)
    \/ \E c \in Conns : ResolvePath(c)
    \/ \E c \in Conns : BuildResponse(c)
    \/ \E c \in Conns : WriteResponse(c)
    \/ \E c \in Conns : Shutdown(c)

(***************************************************************************)
(* The served directory /r and what lies beside it.                        *)
(***************************************************************************)
L_root == <<<<"r">>>>
L_index == <<<<"r">>, <<"i", "n", "d", "e", "x", ".", "h", "t", "m", "l">>>>
L_style == <<<<"r">>, <<"s", "t", "y", "l", "e", ".", "c", "s", "s">>>>
L_app == <<<<"r">>, <<"a", "p", "p", ".", "j", "s">>>>
L_pic == <<<<"r">>, <<"p", "i", "c", ".", "j", "p", "g">>>>
L_notes == <<<<"r">>, <<"n", "o", "t", "e", "s">>>>
L_locked == <<<<"r">>, <<"l", "o", "c", "k", "e", "d", ".", "h", "t", "m", "l">>>>
L_docs == <<<<"r">>, <<"d", "o", "c", "s">>>>
L_dotted == <<<<"r">>, <<"a", ".", ".", "b">>>>
L_secret == <<<<"s", "e", "c", "r", "e", "t", ".", "t", "x", "t">>>>
POST == <<"P", "O", "S", "T">>
get_lower == <<"g", "e", "t">>
HTTP_1_1 == <<"H", "T", "T", "P", "/", "1", ".", "1">>
P_index == <<"/", "i", "n", "d", "e", "x", ".", "h", "t", "m", "l">>
P_style == <<"/", "s", "t", "y", "l", "e", ".", "c", "s", "s">>
P_app == <<"/", "a", "p", "p", ".", "j", "s">>
P_pic == <<"/", "p", "i", "c", ".", "j", "p", "g">>
P_notes == <<"/", "n", "o", "t", "e", "s">>
P_missing == <<"/", "m", "i", "s", "s", "i", "n", "g", ".", "t", "x", "t">>
P_traversal == <<"/", ".", ".", "/", "s", "e", "c", "r", "e", "t", ".", "t", "x", "t">>
P_absolute == <<"/", "/", "s", "e", "c", "r", "e", "t", ".", "t", "x", "t">>
P_locked == <<"/", "l", "o", "c", "k", "e", "d", ".", "h", "t", "m", "l">>
P_docs == <<"/", "d", "o", "c", "s">>
P_through_file == <<"/", "i", "n", "d", "e", "x", ".", "h", "t", "m", "l", "/", "x">>
P_root == <<"/">>
P_dot == <<"/", ".">>
P_dotdot == <<"/", ".", ".">>
P_dotted == <<"/", "a", ".", ".", "b">>
P_relative == <<"i", "n", "d", "e", "x", ".", "h", "t", "m", "l">>
HostX == <<"H", "o", "s", "t", ":", " ", "x", "\r", "\n">>
HostBare == <<"H", "o", "s", "t", "\r", "\n">>
HostY == <<"H", "o", "s", "t", ":", " ", "y", "\r", "\n">>
ViaColon == <<"V", "i", "a", ":", " ", "a", ":", " ", "b", "\r", "\n">>
Extra == <<"e", "x", "t", "r", "a">>
Hello ==
    <<"<", "h", "1", ">", "H", "e", "l", "l", "o", " ", "W", "o", "r", "l", "d", "<", "/", "h",
      "1", ">">>
Css == <<"p", "{", "}">>
Js == <<"x", "=", "1">>
Jpg == <<"J", "F", "I", "F">>
Notes == <<"h", "i">>
Key == <<"k", "e", "y">>
Ab == <<"a", "b">>
Dir == [kind |-> "dir", data |-> <<>>]

SiteFs ==
    (L_root :> Dir)
    @@ (L_index :> FsEntry("file", Hello))
    @@ (L_style :> FsEntry("file", Css))
    @@ (L_app :> FsEntry("file", Js))
    @@ (L_pic :> FsEntry("file", Jpg))
    @@ (L_notes :> FsEntry("file", Notes))
    @@ (L_locked :> FsEntry("denied", <<>>))
    @@ (L_docs :> Dir)
    @@ (L_dotted :> FsEntry("file", Ab))
    @@ (L_secret :> FsEntry("file", Key))

(***************************************************************************)
(* What a peer may do: the bytes it sends, how its stream ends, whether it  *)
(* reads the response, and how many writes its socket may take before one  *)
(* fails; with it, the hash orders the response's header map may have.     *)
(***************************************************************************)
MaxAccepts == 7

SP == <<" ">>
CRLF == <<"\r", "\n">>
LF == <<"\n">>

RequestLine(m, p) == m \o SP \o p \o SP \o HTTP_1_1 \o CRLF

Complete(m, p, hs) == RequestLine(m, p) \o hs \o CRLF

ServerPaths ==
    {P_index, P_style, P_app, P_pic, P_notes, P_missing, P_traversal, P_absolute, P_locked,
     P_docs, P_through_file, P_root, P_dot, P_dotdot, P_dotted, P_relative}

Stream(d, e) == [data |-> d, ending |-> e]

\* a well-formed GET for each path
PathStreams == {Stream(Complete(GET, p, HostX), "open") : p \in ServerPaths}

\* the other methods, supported or not
MethodStreams ==
    {Stream(Complete(m, p, HostX), "open") :
        m \in {HEAD, OPTIONS, POST, get_lower}, p \in {P_index, P_missing, P_traversal}}

\* request lines of zero to four tokens, and bare line feeds
LineStreams ==
    {Stream(d, e) :
        d \in {<<>>, CRLF, GET \o CRLF \o CRLF, GET \o SP \o P_index \o CRLF \o CRLF,
               GET \o SP \o P_index \o SP \o HTTP_1_1 \o SP \o Extra \o CRLF \o CRLF,
               GET \o SP \o P_index \o SP \o HTTP_1_1 \o LF \o LF},
        e \in {"open", "eof"}}

\* header blocks: none, a line without ": ", a value with ": ", a repeated name,
\* and bytes after the empty line
HeaderStreams ==
    {Stream(Complete(GET, P_index, hs), "open") :
        hs \in {<<>>, HostBare, ViaColon, HostX \o HostY}}
    \cup {Stream(Complete(GET, P_index, HostX) \o Extra, "open")}

\* messages that stop before the empty line
TruncatedStreams ==
    {Stream(d, e) :
        d \in {SubSeq(RequestLine(GET, P_index), 1, 8), RequestLine(GET, P_index),
               RequestLine(GET, P_index) \o HostX,
               RequestLine(GET, P_missing) \o SubSeq(HostX, 1, 4)},
        e \in {"open", "eof", "err"}}

Streams == PathStreams \cup MethodStreams \cup LineStreams \cup HeaderStreams \cup TruncatedStreams

HeaderNames == {H_Server, H_Connection, H_Content_Type, H_Content_Length}

\* the rankings of the header names
HashOrders ==
    {h \in [1..Cardinality(HeaderNames) -> HeaderNames] :
        \A i, j \in DOMAIN h : h[i] = h[j] => i = j}

Peers ==
    {[data |-> s.data, ending |-> s.ending, reads |-> r, accepts |-> 0..MaxAccepts,
      hashes |-> HashOrders] :
        s \in Streams, r \in BOOLEAN}

\* the server after startup, with n connections to come from peers of the set
ServerInit(n, peers) ==
    /\ fs = SiteFs
    /\ env \in [1..n -> peers]
    /\ incoming = n
    /\ queue = <<>>
    /\ worker = [w \in Threads |-> 0]
    /\ pc = [c \in 1..n |-> "Pending"]
    /\ req = [c \in 1..n |-> NoRequest]
    /\ file = [c \in 1..n |-> NoResult]
    /\ resp = [c \in 1..n |-> NoResponse]
    /\ out = [c \in 1..n |-> NoOutput]
    /\ log = [c \in 1..n |-> <<>>]
    /\ call = NoCall

\* one connection, from any peer
Init == ServerInit(1, Peers)

Spec == Init /\ [][Next]_vars

\* a pool thread that can take a step takes it: the handler runs to its return
\* unless a read or a write does not return
Fairness ==
    /\ \A w \in Threads : WF_vars(StartHandler(w))
    /\ \A c \in {1} :
          /\ WF_vars(Decode(c))
          /\ WF_vars(ResolvePath(c))
          /\ WF_vars(BuildResponse(c))
          /\ WF_vars(WriteResponse(c))
          /\ WF_vars(Shutdown(c))

\* peers as above, with three outcomes of the write (the first write fails,
\* a header write fails, none fails) and one hash order
InsertionOrder == <<H_Server, H_Connection, H_Content_Type, H_Content_Length>>

FairPeers ==
    {[data |-> s.data, ending |-> s.ending, reads |-> r, accepts |-> {0, 3, MaxAccepts},
      hashes |-> {InsertionOrder}] :
        s \in Streams, r \in BOOLEAN}

FairInit == ServerInit(1, FairPeers)

FairSpec == FairInit /\ [][Next]_vars /\ Fairness

(***************************************************************************)
(* Properties of handle_client.                                            *)
(***************************************************************************)
Count(s, x) == Cardinality({i \in DOMAIN s : s[i] = x})

Positions(s, x) == {i \in DOMAIN s : s[i] = x}

\* the connection has a response built
Built(c) == pc[c] \in {"WritingResponse", "Closed"}

DecodeFailed(c) == req[c].st \in {"Io", "InvalidFormat"}

Decoded(c) == req[c].st = "Ok"

\* one complete serialisation of the response r, in some header order
Serialisations(r) == {Concat(write_calls(r, h)) : h \in HashOrders}

(***************************************************************************)
(* C2.  On every path through handle_client the response is written once:  *)
(* a connection is never closed without its one call of Response::write,   *)
(* no connection sees a second one, and what a successful write has put on *)
(* the socket is exactly one serialised response.                          *)
(***************************************************************************)
C2_ExactlyOneResponse ==
    \A c \in Conns :
        /\ Count(log[c], "write") <= 1
        /\ Count(log[c], "Response::new") <= 1
        /\ out[c].attempted <=> Count(log[c], "write") = 1
        /\ pc[c] = "Closed" => (Count(log[c], "write") = 1 /\ out[c].attempted)
        /\ (out[c].attempted /\ out[c].ok) => out[c].bytes \in Serialisations(resp[c])

C2_Witness ==
    \E c \in Conns :
        /\ pc[c] = "Closed"
        /\ DecodeFailed(c)
        /\ out[c].ok
        /\ Count(log[c], "write") = 1

ShutDownOnceAfterWrite(c) ==
    /\ Count(log[c], "shutdown") <= 1
    /\ pc[c] = "Closed" <=> Count(log[c], "shutdown") = 1
    /\ \A i \in Positions(log[c], "shutdown") :
          /\ \E j \in Positions(log[c], "write") : j < i
          /\ \A j \in Positions(log[c], "write") : j < i
          /\ i = Len(log[c]) - 1

\* the reads and the write of the handler of c return
PeerLetsHandlerRun(c) == from_bytes(env[c]).st # "Blocked" /\ env[c].reads

Rank(s) ==
    CASE s = "Pending" -> 0
      [] s = "Failed" -> 1
      [] s = "Queued" -> 1
      [] s = "AwaitingRequest" -> 2
      [] s = "Resolving" -> 3
      [] s = "BuildingResponse" -> 4
      [] s = "WritingResponse" -> 5
      [] s = "Closed" -> 6

HandlerStates == {"AwaitingRequest", "Resolving", "BuildingResponse", "WritingResponse", "Closed"}

IsHandlerState(e) == e \in HandlerStates

Visited(c) == SelectSeq(log[c], IsHandlerState)

InOrder(c) ==
    /\ \A i, j \in DOMAIN Visited(c) : i < j => Rank(Visited(c)[i]) < Rank(Visited(c)[j])
    /\ pc[c] \in HandlerStates => Visited(c)[Len(Visited(c))] = pc[c]
    /\ \A i \in Positions(log[c], "get_reader") :
          /\ Decoded(c)
          /\ \E j \in Positions(log[c], "from_bytes") : j < i
    /\ DecodeFailed(c) => (Count(log[c], "Resolving") = 0 /\ Count(log[c], "get_reader") = 0)

C4_StatesInOrder ==
    /\ [](\A c \in Conns : InOrder(c))
    /\ [][\A c \in Conns :
            /\ pc'[c] # pc[c] => Rank(pc'[c]) > Rank(pc[c])
            /\ (pc'[c] # pc[c] /\ pc'[c] = "Resolving") =>
                   (pc[c] = "AwaitingRequest" /\ req'[c].st = "Ok")
            /\ (pc'[c] # pc[c] /\ pc[c] = "AwaitingRequest" /\ req'[c].st # "Ok") =>
                   pc'[c] = "BuildingResponse"]_vars

C4_Witness ==
    \E c \in Conns :
        /\ DecodeFailed(c)
        /\ Visited(c) = <<"AwaitingRequest", "BuildingResponse", "WritingResponse", "Closed">>

(***************************************************************************)
(* C5.  When decoding the request fails, whatever the reason, the response *)
(* has status 400 Bad Request, and no file is resolved or opened for the   *)
(* connection.                                                             *)
(***************************************************************************)
StatusLine(s) == HTTP_1_1_SP \o status_as_str(s) \o <<"\n">>

C5_DecodeFailureIs400 ==
    \A c \in Conns :
        DecodeFailed(c) =>
            /\ Built(c) => resp[c].status = "BadRequest"
            /\ (out[c].attempted /\ out[c].calls >= 1) =>
                   StartsWith(out[c].bytes, StatusLine("BadRequest"))
            /\ pc[c] # "Resolving"
            /\ file[c] = NoResult
            /\ Count(log[c], "get_reader") = 0
            /\ Count(log[c], "File::open") = 0

C5_Witness ==
    \E c \in Conns :
        /\ req[c].st = "Io"
        /\ pc[c] = "Closed"
        /\ out[c].ok
        /\ StartsWith(out[c].bytes, StatusLine("BadRequest"))

(***************************************************************************)
(* C6.  The response has status 404 Not Found exactly when the request     *)
(* decoded and get_reader reported NotFound.                               *)
(***************************************************************************)
C6_NotFoundIs404 ==
    \A c \in Conns :
        Built(c) =>
            /\ resp[c].status = "NotFound"
                   <=> (Decoded(c) /\ ~file[c].ok /\ file[c].kind = "NotFound")
            /\ (out[c].attempted /\ out[c].calls >= 1) =>
                   (StartsWith(out[c].bytes, StatusLine("NotFound"))
                        <=> (Decoded(c) /\ ~file[c].ok /\ file[c].kind = "NotFound"))

C6_Witness ==
    \E c \in Conns :
        /\ pc[c] = "Closed"
        /\ req[c].path = P_missing
        /\ file[c].kind = "NotFound"
        /\ StartsWith(out[c].bytes, StatusLine("NotFound"))

(***************************************************************************)
(* C7.  When the request decoded and get_reader returned the invalid-path  *)
(* error or an Io error other than NotFound, the response has status 500   *)
(* Internal Server Error; for the invalid-path error no file was opened.   *)
(***************************************************************************)
C7_OtherErrorsAre500 ==
    \A c \in Conns :
        (Built(c) /\ Decoded(c) /\ ~file[c].ok /\ file[c].kind # "NotFound") =>
            /\ resp[c].status = "InternalServerError"
            /\ (out[c].attempted /\ out[c].calls >= 1) =>
                   StartsWith(out[c].bytes, StatusLine("InternalServerError"))
            /\ file[c].kind = "InvalidInput" =>
                   (file[c].opened = <<>> /\ Count(log[c], "File::open") = 0)

C7_Witness ==
    \E c \in Conns :
        /\ pc[c] = "Closed"
        /\ req[c].path = P_traversal
        /\ file[c].kind = "InvalidInput"
        /\ out[c].ok
        /\ StartsWith(out[c].bytes, StatusLine("InternalServerError"))

(***************************************************************************)
(* C8.  When the request decoded and get_reader returned a file, the       *)
(* response has status 200 OK, the Content-Type of the extension of the    *)
(* request path (text/plain when it has none or an unknown one), a         *)
(* Content-Length equal to the size of the file, and the bytes of the file *)
(* as its body.                                                            *)
(***************************************************************************)
OpenedEntry(c) == Entry(fs, Components(file[c].opened[1]))

C8_FileIs200 ==
    \A c \in Conns :
        (Built(c) /\ Decoded(c) /\ file[c].ok) =>
            /\ resp[c].status = "Ok"
            /\ resp[c].headers[H_Content_Type] = as_str(get_mime_type(req[c].path))
            /\ req[c].path = P_index => resp[c].headers[H_Content_Type] = text_html
            /\ req[c].path = P_style => resp[c].headers[H_Content_Type] = text_css
            /\ req[c].path = P_app => resp[c].headers[H_Content_Type] = text_javascript
            /\ req[c].path = P_pic => resp[c].headers[H_Content_Type] = image_jpeg
            /\ req[c].path \in {P_notes, P_absolute} =>
                   resp[c].headers[H_Content_Type] = text_plain
            /\ resp[c].headers[H_Content_Length] = to_string(Len(OpenedEntry(c).data))
            /\ resp[c].body = [some |-> TRUE, bytes |-> OpenedEntry(c).data]
            /\ out[c].ok =>
                   SubSeq(out[c].bytes, Len(out[c].bytes) + 1 - Len(OpenedEntry(c).data),
                          Len(out[c].bytes)) = OpenedEntry(c).data

C8_Witness ==
    \E c \in Conns :
        /\ pc[c] = "Closed"
        /\ req[c].path = P_index
        /\ file[c].ok
        /\ out[c].ok
        /\ resp[c].headers[H_Content_Type] = text_html
        /\ resp[c].headers[H_Content_Length] = <<"2", "0">>
        /\ resp[c].body.bytes = Hello

(***************************************************************************)
(* Specification of FileTree::get_reader as a function of the request path *)
(* and the filesystem: every path of at most MaxPathLen characters over    *)
(* PathChars, on every filesystem of ResolveFileSystems.                   *)
(***************************************************************************)
PathChars == {"/", ".", "a"}

Paths == UNION {[1..n -> PathChars] : n \in 0..MaxPathLen}

InRootA == <<<<"r">>, <<"a">>>>
InRootAA == <<<<"r">>, <<"a">>, <<"a">>>>
InRootADotA == <<<<"r">>, <<"a", ".", "a">>>>
OutsideA == <<<<"a">>>>

FsOf(ka, kaa, kada, kout) ==
    (<<<<"r">>>> :> [kind |-> "dir", data |-> <<>>])
    @@ (InRootA :> FsEntry(ka, <<"1">>))
    @@ (InRootAA :> FsEntry(kaa, <<"2", "2">>))
    @@ (InRootADotA :> FsEntry(kada, <<"3", "3", "3">>))
    @@ (OutsideA :> FsEntry(kout, <<"9">>))

ResolveFileSystems ==
    {FsOf(ka, kaa, kada, kout) :
        ka \in {"absent", "file", "denied", "dir"},
        kaa \in {"absent", "file"},
        kada \in {"absent", "file"},
        kout \in {"absent", "file"}}

ServerIdle ==
    /\ env = <<>>
    /\ incoming = 0
    /\ queue = <<>>
    /\ worker = <<>>
    /\ pc = <<>>
    /\ req = <<>>
    /\ file = <<>>
    /\ resp = <<>>
    /\ out = <<>>
    /\ log = <<>>

ResolveInit ==
    /\ ServerIdle
    /\ call \in {[fn |-> "get_reader", arg |-> p, done |-> FALSE, ret |-> NoResult] : p \in Paths}
    /\ fs \in {f \in ResolveFileSystems : f[InRootA].kind = "dir" \/ f[InRootAA].kind = "absent"}

\* tree.get_reader(path)
Resolve ==
    /\ call.fn = "get_reader"
    /\ ~call.done
    /\ call' = [call EXCEPT !.done = TRUE, !.ret = get_reader(Root, fs, call.arg)]
    /\ UNCHANGED <<fs, serverVars>>

ResolveNext == Resolve

SpecResolve == ResolveInit /\ [][ResolveNext]_vars

\* normalised location loc lies in the directory root or below it
Under(root, loc) == StartsWith(Components(loc), Components(root))

ResolveDone == call.fn = "get_reader" /\ call.done

\* the path is one the guard is to refuse: after one leading "/" is stripped it
\* is empty, ".", "..", or has two adjacent dots
Refused(p) ==
    LET q == IF p # <<>> /\ p[1] = "/" THEN Tail(p) ELSE p
    IN  \/ q = <<>>
        \/ q = <<".">>
        \/ q = <<".", ".">>
        \/ \E i \in 1..(Len(q) - 1) : q[i] = "." /\ q[i + 1] = "."

\* the entry under the root that the request path names
Named(p) == Entry(fs, Components(Root) \o Components(strip_prefix(p, "/")))

(***************************************************************************)
(* C1.  Whichever request path is given, a file get_reader opens lies      *)
(* under the root directory.                                               *)
(***************************************************************************)
C1_OpensOnlyUnderRoot ==
    (ResolveDone /\ call.ret.ok) =>
        \A i \in 1..Len(call.ret.opened) : Under(Root, call.ret.opened[i])

(***************************************************************************)
(* C9.  A request path that, after one leading "/" is stripped, is empty,  *)
(* ".", ".." or contains ".." is answered with the InvalidInput error, and *)
(* no file open is attempted.                                              *)
(***************************************************************************)
C9_RefusedBeforeOpen ==
    (ResolveDone /\ Refused(call.arg)) =>
        /\ ~call.ret.ok
        /\ call.ret.kind = "InvalidInput"
        /\ call.ret.opened = <<>>

C9_Witness ==
    /\ ResolveDone
    /\ call.arg = <<"/", "a", ".", ".", "a">>
    /\ fs[InRootA].kind = "file"
    /\ call.ret.kind = "InvalidInput"

(***************************************************************************)
(* C10.  A request path that passes the guard and names no entry under the *)
(* root is answered NotFound; one that passes the guard and names a file   *)
(* under the root is answered with a reader at offset 0 over that file's   *)
(* bytes.                                                                  *)
(***************************************************************************)
C10_NotFoundOrFileBytes ==
    (ResolveDone /\ ~Refused(call.arg)) =>
        /\ Named(call.arg).kind = "absent" =>
                (~call.ret.ok /\ call.ret.kind = "NotFound")
        /\ Named(call.arg).kind = "file" =>
                (call.ret.ok /\ call.ret.pos = 0 /\ call.ret.data = Named(call.arg).data)

(***************************************************************************)
(* The pool with one more connection than it has threads, from peers that *)
(* ask for a file, ask for a missing file on a socket that fails a write,  *)
(* or send an unsupported method; the three kinds of peer take turns, in   *)
(* any order.                                                              *)
(***************************************************************************)
PoolConns == NumThreads + 1

PoolPeer(d, e, a) ==
    [data |-> d, ending |-> e, reads |-> TRUE, accepts |-> {a}, hashes |-> {InsertionOrder}]

PoolPeers ==
    {PoolPeer(Complete(GET, P_index, HostX), "open", MaxAccepts),
     PoolPeer(Complete(GET, P_missing, HostX), "open", 3),
     PoolPeer(Complete(POST, P_index, HostX), "open", MaxAccepts)}

PoolOrders ==
    {o \in [1..Cardinality(PoolPeers) -> PoolPeers] : \A i, j \in DOMAIN o : o[i] = o[j] => i = j}

PoolInit ==
    /\ ServerInit(PoolConns, PoolPeers)
    /\ \E o \in PoolOrders : \A c \in 1..PoolConns : env[c] = o[((c - 1) % Len(o)) + 1]

PoolSpec == PoolInit /\ [][Next]_vars

\* handle_client has been called for c and has not returned
Running(c) == pc[c] \in {"AwaitingRequest", "Resolving", "BuildingResponse", "WritingResponse"}

RunningConns == {c \in Conns : Running(c)}

AllBusy == \A w \in Threads : worker[w] # 0


(***************************************************************************)
(* C11.  At most NumThreads (the size the pool was built with) calls of    *)
(* handle_client are in progress at any moment; a pool thread that runs a  *)
(* handler takes no other connection before that handler has returned;    *)
(* the set of pool threads never changes.                                  *)
(***************************************************************************)
C11_AtMostPoolSizeHandlers ==
    /\ [](/\ Cardinality(RunningConns) <= NumThreads
          /\ DOMAIN worker = Threads
          /\ \A c \in Conns : Running(c) <=> \E w \in Threads : worker[w] = c)
    /\ [][/\ DOMAIN worker' = DOMAIN worker
          /\ \A w \in Threads :
                (worker[w] # 0 /\ worker'[w] # worker[w]) =>
                    (worker'[w] = 0 /\ pc'[worker[w]] = "Closed")]_vars

C11_Witness ==
    /\ AllBusy
    /\ Cardinality(RunningConns) = NumThreads
    /\ \E c \in Conns : pc[c] = "Closed"


(***************************************************************************)
(* The pool saturated: more connections than the pool has threads, every   *)
(* peer sending a complete request for a file that exists and reading the  *)
(* response.  Each of three files is asked for in turn, the first twice.   *)
(***************************************************************************)
LoadFiles == <<P_index, P_style, P_app>>

LoadConns == Len(LoadFiles) + 1

LoadPeer(c) ==
    PoolPeer(Complete(GET, LoadFiles[((c - 1) % Len(LoadFiles)) + 1], HostX), "open", MaxAccepts)

LoadInit ==
    /\ ServerInit(LoadConns, {LoadPeer(c) : c \in 1..LoadConns})
    /\ \A c \in 1..LoadConns : env[c] = LoadPeer(c)

LoadSpec == LoadInit /\ [][Next]_vars

(***************************************************************************)
(* C12 as stated.  While every pool thread runs a handler, at most one     *)
(* accepted connection waits to be started: the accept loop accepts no     *)
(* further connection until a thread is free.                              *)
(***************************************************************************)
C12_AtMostOnePendingSubmission == AllBusy => Len(queue) <= 1


\* every pool thread with a job to take takes it, and every handler whose
\* next step can be taken takes it
LoadFairness ==
    /\ \A w \in Threads : WF_vars(StartHandler(w))
    /\ \A c \in 1..LoadConns :
          /\ WF_vars(Decode(c))
          /\ WF_vars(ResolvePath(c))
          /\ WF_vars(BuildResponse(c))
          /\ WF_vars(WriteResponse(c))
          /\ WF_vars(Shutdown(c))

FairLoadSpec == LoadInit /\ [][Next]_vars /\ LoadFairness

\* c has been answered 200 OK with the file it asked for, and is closed
Served(c) ==
    /\ pc[c] = "Closed"
    /\ out[c].ok
    /\ resp[c].status = "Ok"
    /\ out[c].bytes = Concat(write_calls(ok_response(req[c].path, file[c]), InsertionOrder))
    /\ StartsWith(out[c].bytes, StatusLine("Ok"))
    /\ resp[c].body.bytes = Entry(fs, Components(Root \o req[c].path)).data
    /\ req[c].path = LoadFiles[((c - 1) % Len(LoadFiles)) + 1]

(***************************************************************************)
(* C13.  With more connections than pool threads, every peer sending a     *)
(* complete request for an existing file, every accepted connection is     *)
(* eventually handled, answered 200 OK with its file, and closed: again    *)
(* and again a moment comes at which every connection accepted so far has  *)
(* been served (a served connection stays served).                         *)
(***************************************************************************)
Accepted(c) == pc[c] \notin {"Pending", "Failed"}

C13_EveryConnectionServed ==
    []<>(\A c \in Conns : Accepted(c) => Served(c))

C13_Witness ==
    /\ Len(env) > NumThreads
    /\ \A c \in Conns : Served(c)


\* the pool threads that run the handler of c
HeldBy(c) == {w \in Threads : worker[w] = c}

\* what the handler of c has computed so far is what its own peer's bytes,
\* and the files under the root, make it
OwnOutcome(c) ==
    /\ req[c] = NoRequest \/ req[c] = from_bytes(env[c])
    /\ file[c] = NoResult \/ (req[c].st = "Ok" /\ file[c] = get_reader(Root, SiteFs, req[c].path))
    /\ resp[c] = NoResponse \/ (req[c] # NoRequest /\ resp[c] = built_response(req[c], file[c]))
    /\ \/ out[c] = NoOutput
       \/ /\ resp[c] # NoResponse
          /\ \E h \in env[c].hashes, a \in env[c].accepts : out[c] = write(resp[c], h, a)
    /\ pc[c] = "Closed" =>
          /\ req[c] # NoRequest
          /\ req[c].st = "Ok" => file[c] # NoResult
          /\ resp[c] # NoResponse
          /\ out[c].attempted

\* the state of connection c
ConnState(c) == <<pc[c], req[c], file[c], resp[c], out[c], log[c]>>

(***************************************************************************)
(* C14.  Under every interleaving each connection is handled by one pool   *)
(* thread, once; what is computed for it and written to it comes from its  *)
(* own request alone, whatever fails on the other connections; a step of   *)
(* the server changes the state of one connection at most; the root and    *)
(* the files under it, all that the handlers share, never change.          *)
(***************************************************************************)
C14_ConnectionsIsolated ==
    /\ [](/\ \A c \in Conns :
                /\ Cardinality(HeldBy(c)) <= 1
                /\ Count(log[c], "AwaitingRequest") <= 1
                /\ OwnOutcome(c)
          /\ fs = SiteFs)
    /\ [][/\ \A c, d \in Conns :
                (ConnState(c)' # ConnState(c) /\ ConnState(d)' # ConnState(d)) => c = d
          /\ env' = env
          /\ fs' = fs]_vars

C14_Witness ==
    \E c, d, e \in Conns :
        /\ pc[c] = "Closed" /\ DecodeFailed(c) /\ resp[c].status = "BadRequest"
        /\ pc[d] = "Closed" /\ file[d].kind = "NotFound" /\ ~out[d].ok
        /\ pc[e] = "Closed" /\ resp[e].status = "Ok" /\ out[e].ok
        /\ resp[e].body.bytes = Hello


(***************************************************************************)
(* Specification of message.rs as functions: Request::from_bytes on        *)
(* streams built from request lines of up to MaxTokens tokens and header   *)
(* blocks of up to MaxHeaderLines lines, HttpMethod::from_str and Display  *)
(* on tokens, Response::write on responses, and the builder calls of       *)
(* Response, up to MaxCalls of them after Response::new().                 *)
(***************************************************************************)
MaxTokens == 3

MaxHeaderLines == 2

MaxCalls == 3

RECURSIVE JoinWith(_, _)
\* the texts ts, with sep between them
JoinWith(ts, sep) ==
    IF ts = <<>> THEN <<>>
    ELSE IF Len(ts) = 1 THEN ts[1]
    ELSE ts[1] \o sep \o JoinWith(Tail(ts), sep)

LineTokens == {GET, HEAD, POST, P_index, HTTP_1_1}

TokenSeqs == UNION {[1..n -> LineTokens] : n \in 0..MaxTokens}

ParseArg(k, d, e, ls) == [kind |-> k, data |-> d, ending |-> e, lines |-> ls]

\* request lines of zero to MaxTokens tokens, separated by a space or by more
\* whitespace, ended by CRLF or LF, and something after them
TokenStreams ==
    {ParseArg("line", JoinWith(ts, <<" ">>) \o t \o f, e, <<>>) :
        ts \in TokenSeqs, t \in {CRLF, LF}, f \in {<<>>, CRLF, HostX \o CRLF},
        e \in {"open", "eof"}}
    \cup {ParseArg("line", <<" ">> \o JoinWith(ts, <<" ", "\t">>) \o <<" ">> \o CRLF \o f, "eof", <<>>) :
            ts \in TokenSeqs, f \in {<<>>, HostX \o CRLF}}
    \cup {ParseArg("line", JoinWith(ts, <<" ">>), "eof", <<>>) : ts \in TokenSeqs}

\* header lines: name and value, no separator, a value with a separator in it,
\* a repeated name, an empty value, an empty name, a colon without space,
\* a name in lower case
HeaderLineSet ==
    {<<"H", "o", "s", "t", ":", " ", "x">>, <<"H", "o", "s", "t">>,
     <<"V", "i", "a", ":", " ", "a", ":", " ", "b">>, <<"H", "o", "s", "t", ":", " ", "y">>,
     <<"N", ":", " ">>, <<":", " ">>, <<"A", ":", "b">>, <<"A", ":", ":", " ", "b">>,
     <<"h", "o", "s", "t", ":", " ", "z">>}

HeaderBlocks == UNION {[1..n -> HeaderLineSet] : n \in 0..MaxHeaderLines}

RECURSIVE Terminated(_)
\* the lines ls, each ended by CRLF
Terminated(ls) == IF ls = <<>> THEN <<>> ELSE Head(ls) \o CRLF \o Terminated(Tail(ls))

\* a good request line, header lines, the empty line, and something after it
HeaderBlockStreams ==
    {ParseArg("headers", RequestLine(GET, P_index) \o Terminated(ls) \o CRLF \o f, "open", ls) :
        ls \in HeaderBlocks, f \in {<<>>, <<"j", "u", "n", "k", "\r", "\n">>}}

\* messages cut before the empty line: in the request line or after some
\* header lines, by the end of the stream or by a read error
CutStreams ==
    {ParseArg("cut", d, e, <<>>) :
        d \in {SubSeq(RequestLine(GET, P_index), 1, 8), RequestLine(GET, P_index),
               RequestLine(GET, P_index) \o HostX,
               RequestLine(GET, P_index) \o HostX \o SubSeq(ViaColon, 1, 6)},
        e \in {"eof", "err"}}

\* token sequences of at most MaxTokens - 1 tokens, to follow the first three
ExtraTokens == UNION {[1..n -> {Extra, HTTP_1_1}] : n \in 0..(MaxTokens - 1)}

\* request lines of three tokens and more, a header block, the empty line and
\* bytes after it; with each, the message of its first three tokens, its
\* header block and the empty line
LongLineStreams ==
    {ParseArg("long", JoinWith(ts \o xs, <<" ">>) \o CRLF \o hs \o CRLF \o after, "open",
              <<JoinWith(ts, <<" ">>) \o CRLF \o hs \o CRLF>>) :
        ts \in [1..3 -> LineTokens], xs \in ExtraTokens, hs \in {<<>>, HostX},
        after \in {<<>>, <<"b", "o", "d", "y">>}}

ParseCalls ==
    {[fn |-> "from_bytes", arg |-> a, done |-> FALSE, ret |-> NoRequest] :
        a \in TokenStreams \cup HeaderBlockStreams \cup CutStreams \cup LongLineStreams}

\* Request::from_bytes(stream)
ParseRequest ==
    /\ call.fn = "from_bytes"
    /\ ~call.done
    /\ \E r \in {from_bytes(Stream(call.arg.data, call.arg.ending))} :
           /\ r.st # "Blocked"
           /\ call' = [call EXCEPT !.done = TRUE, !.ret = r]
    /\ UNCHANGED <<fs, serverVars>>

MethodTokens ==
    {GET, HEAD, OPTIONS, POST, get_lower, <<>>, <<"P", "U", "T">>, <<"G", "e", "t">>,
     <<"G", "E", "T", "S">>, <<"G", "E">>, <<" ", "G", "E", "T">>, <<"h", "e", "a", "d">>,
     <<"O", "P", "T", "I", "O", "N">>}

NoMethod == [ok |-> FALSE, method |-> "None", shown |-> <<>>]

MethodCalls == {[fn |-> "from_str", arg |-> t, done |-> FALSE, ret |-> NoMethod] : t \in MethodTokens}

\* s.parse::<HttpMethod>() and, of a method parsed, to_string()
ParseMethod ==
    /\ call.fn = "from_str"
    /\ ~call.done
    /\ \E m \in {from_str(call.arg)} :
           call' = [call EXCEPT !.done = TRUE,
                                !.ret = [ok |-> m.ok, method |-> m.method,
                                         shown |-> IF m.ok THEN method_to_string(m.method)
                                                   ELSE <<>>]]
    /\ UNCHANGED <<fs, serverVars>>


\* the builder calls tried, as records: the method called and its arguments
BuilderArg(o, n, v, s) == [op |-> o, name |-> n, value |-> v, status |-> s]

BuilderArgs ==
    {BuilderArg("status", <<>>, <<>>, "NotFound"),
     BuilderArg("status", <<>>, <<>>, "BadRequest"),
     BuilderArg("header", H_Server, <<"n", "g", "i", "n", "x">>, "Ok"),
     BuilderArg("header", H_Connection, <<"k", "e", "e", "p", "-", "a", "l", "i", "v", "e">>, "Ok"),
     BuilderArg("header", <<"X">>, <<"1">>, "Ok"),
     BuilderArg("server", <<>>, <<"s">>, "Ok"),
     BuilderArg("body", <<>>, <<"h", "i">>, "Ok")}

\* one builder call on the response r
Apply(r, c) ==
    CASE c.op = "status" -> status(r, c.status)
      [] c.op = "header" -> header(r, c.name, c.value)
      [] c.op = "server" -> server(r, c.value)
      [] c.op = "body" -> body(r, c.value)

BuilderSeqs == UNION {[1..n -> BuilderArgs] : n \in 0..MaxCalls}

BuilderCalls ==
    {[fn |-> "builder", arg |-> cs, done |-> cs = <<>>, ret |-> Response_new, made |-> <<>>] :
        cs \in BuilderSeqs}

\* the next call of a chain Response::new().a(..).b(..)...
BuilderCall ==
    /\ call.fn = "builder"
    /\ call.arg # <<>>
    /\ call' = [call EXCEPT !.arg = Tail(call.arg),
                            !.made = Append(call.made, Head(call.arg)),
                            !.ret = Apply(call.ret, Head(call.arg)),
                            !.done = Tail(call.arg) = <<>>]
    /\ UNCHANGED <<fs, serverVars>>

WrittenResponses ==
    {Response_new, status(Response_new, "NotModified"), body(Response_new, <<"h", "i">>),
     body(Response_new, <<>>), bad_request_response, not_found_response,
     internal_error_response}

WriteCalls ==
    {[fn |-> "write", arg |-> [self |-> r, hash |-> h], done |-> FALSE, ret |-> NoOutput] :
        r \in WrittenResponses, h \in HashOrders}

\* response.write(&mut stream) on a stream that takes every write
WriteOut ==
    /\ call.fn = "write"
    /\ ~call.done
    /\ call' = [call EXCEPT !.done = TRUE,
                            !.ret = write(call.arg.self, call.arg.hash, MaxAccepts)]
    /\ UNCHANGED <<fs, serverVars>>

MessageInit ==
    /\ ServerIdle
    /\ fs = SiteFs
    /\ \/ call \in ParseCalls
       \/ call \in MethodCalls
       \/ call \in BuilderCalls
       \/ call \in WriteCalls

MessageNext == ParseRequest \/ ParseMethod \/ BuilderCall \/ WriteOut

SpecMessage == MessageInit /\ [][MessageNext]_vars


ParseDone == call.fn = "from_bytes" /\ call.done

\* the first line of d, without its line feed
FirstLine(d) ==
    IF \E i \in DOMAIN d : d[i] = "\n"
    THEN SubSeq(d, 1, (CHOOSE i \in DOMAIN d : d[i] = "\n" /\ \A j \in 1..(i - 1) : d[j] # "\n") - 1)
    ELSE d

\* the number of maximal runs of characters other than whitespace in l
NumTokens(l) ==
    Cardinality({i \in DOMAIN l : l[i] \notin WhiteSpace /\ (i = 1 \/ l[i - 1] \in WhiteSpace)})

(***************************************************************************)
(* C15.  A request line of fewer than three whitespace-separated tokens,   *)
(* the empty line included, makes Request::from_bytes return InvalidFormat *)
(* and no Request, whatever follows it on the stream.                      *)
(***************************************************************************)
C15_FewerThanThreeTokens ==
    (ParseDone /\ call.arg.kind = "line" /\ NumTokens(FirstLine(call.arg.data)) < 3) =>
        call.ret.st = "InvalidFormat"

C15_Witness ==
    /\ ParseDone
    /\ call.arg.data = GET \o SP \o P_index \o CRLF \o HostX \o CRLF
    /\ call.ret.st = "InvalidFormat"


MethodDone == call.fn = "from_str" /\ call.done

\* the first maximal run of characters other than whitespace in l
FirstToken(l) ==
    LET starts == {i \in DOMAIN l : l[i] \notin WhiteSpace}
        i == CHOOSE a \in starts : \A b \in starts : a <= b
        ends == {j \in i..Len(l) : j = Len(l) \/ l[j + 1] \in WhiteSpace}
        j == CHOOSE a \in ends : \A b \in ends : a <= b
    IN  IF starts = {} THEN <<>> ELSE SubSeq(l, i, j)

(***************************************************************************)
(* C16.  A method token is accepted exactly when it is GET, HEAD or        *)
(* OPTIONS, in this case of letters; every other token gives               *)
(* InvalidFormat, alone and as the first token of a request line; Display  *)
(* of the method parsed gives the token back.                              *)
(***************************************************************************)
C16_MethodTokens ==
    /\ MethodDone =>
          /\ call.ret.ok <=> call.arg \in {GET, HEAD, OPTIONS}
          /\ call.ret.ok => call.ret.shown = call.arg
          /\ ~call.ret.ok => call.ret.method = "InvalidFormat"
    /\ (ParseDone /\ call.arg.kind = "line") =>
          /\ FirstToken(FirstLine(call.arg.data)) \notin {GET, HEAD, OPTIONS} =>
                call.ret.st = "InvalidFormat"
          /\ call.ret.st = "Ok" =>
                method_to_string(call.ret.method) = FirstToken(FirstLine(call.arg.data))

C16_Witness ==
    /\ MethodDone
    /\ call.arg = get_lower
    /\ ~call.ret.ok
    /\ call.ret.method = "InvalidFormat"


\* the first ": " of line is at k
SplitsAt(line, k) ==
    /\ k \in 1..(Len(line) - 1)
    /\ line[k] = ":" /\ line[k + 1] = " "
    /\ \A j \in 1..(k - 1) : ~(line[j] = ":" /\ line[j + 1] = " ")

HasSeparator(line) == \E k \in DOMAIN line : SplitsAt(line, k)

NameOf(line) == SubSeq(line, 1, (CHOOSE k \in DOMAIN line : SplitsAt(line, k)) - 1)

ValueOf(line) == SubSeq(line, (CHOOSE k \in DOMAIN line : SplitsAt(line, k)) + 2, Len(line))

(***************************************************************************)
(* C17.  Each non-empty line between the request line and the first empty *)
(* line is split at its first ": " into name and value; a line without     *)
(* ": " makes Request::from_bytes return InvalidFormat; what follows the   *)
(* first empty line is not parsed.                                         *)
(***************************************************************************)
C17_HeaderLines ==
    (ParseDone /\ call.arg.kind = "headers") =>
        LET ls == call.arg.lines
        IN  IF \E i \in DOMAIN ls : ~HasSeparator(ls[i])
            THEN call.ret.st = "InvalidFormat"
            ELSE /\ call.ret.st = "Ok"
                 /\ DOMAIN call.ret.headers = {NameOf(ls[i]) : i \in DOMAIN ls}
                 /\ \A i \in DOMAIN ls :
                       (\A j \in DOMAIN ls : j > i => NameOf(ls[j]) # NameOf(ls[i])) =>
                           call.ret.headers[NameOf(ls[i])] = ValueOf(ls[i])

C17_Witness ==
    /\ ParseDone
    /\ call.arg.kind = "headers"
    /\ call.arg.lines = <<SubSeq(ViaColon, 1, 9), <<"A", ":", ":", " ", "b">>>>
    /\ call.arg.data # RequestLine(GET, P_index) \o Terminated(call.arg.lines) \o CRLF
    /\ call.ret.st = "Ok"
    /\ call.ret.headers[<<"V", "i", "a">>] = <<"a", ":", " ", "b">>
    /\ call.ret.headers[<<"A", ":">>] = <<"b">>


(***************************************************************************)
(* C18 as stated.  When the stream fails or ends before the empty line     *)
(* that ends the headers, Request::from_bytes returns the Io error, and no *)
(* Request made of the part of the message that was read.                  *)
(***************************************************************************)
C18_TruncatedIsIo ==
    (ParseDone /\ call.arg.kind = "cut") => call.ret.st = "Io"


RECURSIVE CrlfHeaderLines(_, _)
\* "name: value" CRLF for each of the names, in their order
CrlfHeaderLines(map, names) ==
    IF names = <<>> THEN <<>>
    ELSE Head(names) \o <<":", " ">> \o map[Head(names)] \o CRLF
         \o CrlfHeaderLines(map, Tail(names))

\* the message of RFC 9112 for the response r, its headers in the order names
CrlfMessage(r, names) ==
    HTTP_1_1_SP \o status_as_str(r.status) \o CRLF
    \o CrlfHeaderLines(r.headers, names)
    \o CRLF
    \o (IF r.body.some THEN r.body.bytes ELSE <<>>)

WriteDone == call.fn = "write" /\ call.done

(***************************************************************************)
(* C19 as stated.  Response::write emits "HTTP/1.1 ", the status code and  *)
(* reason phrase and CRLF, one "name: value" CRLF line for each header of  *)
(* the response, an empty CRLF line, and then the bytes of the body, or    *)
(* nothing when there is no body.                                          *)
(***************************************************************************)
C19_WritesCrlfMessage ==
    WriteDone =>
        /\ call.ret.ok
        /\ call.ret.bytes = CrlfMessage(call.arg.self, iter(call.arg.self.headers, call.arg.hash))


\* the builder call c sets the header called n
SetsHeader(c, n) ==
    \/ c.op = "header" /\ c.name = n
    \/ c.op = "server" /\ n = H_Server

\* the calls of the chain made that set the header called n
SettersOf(made, n) == {i \in DOMAIN made : SetsHeader(made[i], n)}

\* the value of the last call of made that set the header n, or else dflt
LastValue(made, n, dflt) ==
    IF SettersOf(made, n) = {} THEN dflt
    ELSE made[CHOOSE i \in SettersOf(made, n) : \A j \in SettersOf(made, n) : j <= i].value

StatusCalls(made) == {i \in DOMAIN made : made[i].op = "status"}

ResolveFailed(c) == Decoded(c) /\ file[c] # NoResult /\ ~file[c].ok

ErrorPath(c) == DecodeFailed(c) \/ ResolveFailed(c)

\* the status of the error path the handler of c took
ErrorStatus(c) ==
    IF DecodeFailed(c) THEN "BadRequest"
    ELSE IF file[c].kind = "NotFound" THEN "NotFound"
    ELSE "InternalServerError"

\* the generic HTML body that goes with a status
ErrorBody(s) ==
    CASE s = "BadRequest" -> DEFAULT_BAD_REQUEST_BODY
      [] s = "NotFound" -> DEFAULT_NOT_FOUND_BODY
      [] s = "InternalServerError" -> DEFAULT_INTERNAL_ERROR_BODY

EndsWith(s, p) == Len(p) <= Len(s) /\ SubSeq(s, Len(s) - Len(p) + 1, Len(s)) = p

ContentTypeLine(t) == H_Content_Type \o <<":", " ">> \o t \o <<"\n">>

(***************************************************************************)
(* C21.  On every error path of handle_client (400, 404, 500) the response *)
(* built has the generic HTML body of that same status and Content-Type    *)
(* text/html, and a write that the socket takes whole puts on the wire the *)
(* status line of that status, the headers with the Content-Type line, the *)
(* blank line and that body; a write that fails puts a prefix of it.       *)
(***************************************************************************)
C21_ErrorPathsWriteCompleteResponse ==
    \A c \in Conns :
        (ErrorPath(c) /\ Built(c)) =>
            /\ resp[c].status = ErrorStatus(c)
            /\ H_Content_Type \in DOMAIN resp[c].headers
            /\ resp[c].headers[H_Content_Type] = text_html
            /\ resp[c].body.some
            /\ resp[c].body.bytes = ErrorBody(ErrorStatus(c))
            /\ out[c].ok =>
                   /\ StartsWith(out[c].bytes, StatusLine(ErrorStatus(c)))
                   /\ Contains(out[c].bytes, <<"\n">> \o ContentTypeLine(text_html))
                   /\ EndsWith(out[c].bytes, <<"\n", "\n">> \o ErrorBody(ErrorStatus(c)))
            /\ (out[c].attempted /\ ~out[c].ok) =>
                   \E s \in Serialisations(resp[c]) : StartsWith(s, out[c].bytes)

\* the 500 path ran to its end and its whole response was written
C21_Witness ==
    \E c \in Conns :
        /\ ResolveFailed(c)
        /\ file[c].kind # "NotFound"
        /\ pc[c] = "Closed"
        /\ out[c].ok
        /\ EndsWith(out[c].bytes, <<"\n", "\n">> \o DEFAULT_INTERNAL_ERROR_BODY)


\* the header lines of ls whose name is n
LinesNamed(ls, n) == {i \in DOMAIN ls : NameOf(ls[i]) = n}

\* the last of the header lines of ls whose name is n
LastNamed(ls, n) == CHOOSE i \in LinesNamed(ls, n) : \A j \in LinesNamed(ls, n) : j <= i

Host_lower == <<"h", "o", "s", "t">>

Host_upper == <<"H", "o", "s", "t">>

(***************************************************************************)
(* C22.  When a header name occurs on several header lines of a request,   *)
(* the Request maps the name to the value of its last occurrence; the      *)
(* mapping has one entry for each name that occurs, and names that differ  *)
(* only in the case of their letters have entries of their own.            *)
(***************************************************************************)
C22_LastOccurrenceWins ==
    (ParseDone /\ call.arg.kind = "headers"
     /\ \A i \in DOMAIN call.arg.lines : HasSeparator(call.arg.lines[i])) =>
        LET ls == call.arg.lines
            names == {NameOf(ls[i]) : i \in DOMAIN ls}
        IN  /\ call.ret.st = "Ok"
            /\ DOMAIN call.ret.headers = names
            /\ \A n \in names : call.ret.headers[n] = ValueOf(ls[LastNamed(ls, n)])
            /\ (Host_lower \in names /\ Host_upper \in names) =>
                   /\ call.ret.headers[Host_lower] = ValueOf(ls[LastNamed(ls, Host_lower)])
                   /\ call.ret.headers[Host_upper] = ValueOf(ls[LastNamed(ls, Host_upper)])
                   /\ Cardinality(DOMAIN call.ret.headers) >= 2

\* "Host: x" then "Host: y" decoded to the one entry Host -> y
C22_Witness ==
    /\ ParseDone
    /\ call.arg.kind = "headers"
    /\ call.arg.lines = <<SubSeq(HostX, 1, 7), SubSeq(HostY, 1, 7)>>
    /\ call.ret.st = "Ok"
    /\ DOMAIN call.ret.headers = {Host_upper}
    /\ call.ret.headers[Host_upper] = <<"y">>


(***************************************************************************)
(* Peers whose socket fails at each of the writes of Response::write: the  *)
(* status line, each header line, the empty line, the body.                *)
(***************************************************************************)
ReverseOrder == <<H_Content_Length, H_Content_Type, H_Connection, H_Server>>

WriteFailPeers ==
    {[data |-> d, ending |-> "open", reads |-> r, accepts |-> 0..MaxAccepts,
      hashes |-> {InsertionOrder, ReverseOrder}] :
        d \in {Complete(GET, P_index, HostX), Complete(HEAD, P_style, HostX),
               Complete(GET, P_missing, HostX), Complete(GET, P_traversal, HostX),
               Complete(POST, P_index, HostX)},
        r \in BOOLEAN}

WriteFailSpec == ServerInit(1, WriteFailPeers) /\ [][Next]_vars /\ Fairness

WriteFailed(c) == out[c].attempted /\ ~out[c].ok

\* the last n entries of the log s
LogTail(s, n) == SubSeq(s, Len(s) - n + 1, Len(s))

(***************************************************************************)
(* C23.  When a write fails during Response::write (the status line, a     *)
(* header line, the blank line or the body), write returns the error at    *)
(* once: what is on the wire is what the writes before the failing one     *)
(* wrote, and nothing after it.  The handler calls write once only, builds *)
(* no second response, and goes on to shut the socket down: it reaches     *)
(* Closed, by the shutdown that follows the write.                         *)
(***************************************************************************)
C23_WriteFailureAbortsAndCloses ==
    /\ [](\A c \in Conns :
            WriteFailed(c) =>
                /\ \E h \in env[c].hashes :
                       /\ out[c].calls < Len(write_calls(resp[c], h))
                       /\ out[c].bytes = Concat(SubSeq(write_calls(resp[c], h), 1, out[c].calls))
                /\ Count(log[c], "write") = 1
                /\ Count(log[c], "Response::new") = 1
                /\ pc[c] \in {"WritingResponse", "Closed"}
                /\ pc[c] = "Closed" => LogTail(log[c], 3) = <<"write", "shutdown", "Closed">>)
    /\ [][\A c \in Conns :
            WriteFailed(c) => (out'[c] = out[c] /\ resp'[c] = resp[c])]_vars
    /\ \A c \in {1} : WriteFailed(c) ~> (pc[c] = "Closed")

\* the write of the body failed, after the status line, the headers and the
\* blank line were written, and the socket was shut down
C23_Witness ==
    \E c \in Conns :
        /\ WriteFailed(c)
        /\ resp[c].status = "Ok"
        /\ out[c].calls = Len(write_calls(resp[c], InsertionOrder)) - 1
        /\ EndsWith(out[c].bytes, <<"\n", "\n">>)
        /\ pc[c] = "Closed"
        /\ Count(log[c], "shutdown") = 1


(***************************************************************************)
(* Peers that stall: they send no complete request and keep the connection *)
(* open.  One more connection than the pool has threads.                   *)
(***************************************************************************)
StallConns == NumThreads + 1

StallPeer(d) ==
    [data |-> d, ending |-> "open", reads |-> TRUE, accepts |-> {MaxAccepts},
     hashes |-> {InsertionOrder}]

StallPeers ==
    {StallPeer(SubSeq(RequestLine(GET, P_index), 1, 8)),
     StallPeer(RequestLine(GET, P_index) \o HostX), StallPeer(Complete(GET, P_index, HostX))}

StallFairness ==
    /\ \A w \in Threads : WF_vars(StartHandler(w))
    /\ \A c \in 1..StallConns :
          /\ WF_vars(Decode(c))
          /\ WF_vars(ResolvePath(c))
          /\ WF_vars(BuildResponse(c))
          /\ WF_vars(WriteResponse(c))
          /\ WF_vars(Shutdown(c))

StallSpec == ServerInit(StallConns, StallPeers) /\ [][Next]_vars /\ StallFairness

\* the handler of c waits for a request that its peer does not complete
Stalled(c) == pc[c] = "AwaitingRequest" /\ from_bytes(env[c]).st = "Blocked"

\* every pool thread runs the handler of a stalled peer
AllStalled == \A w \in Threads : worker[w] # 0 /\ Stalled(worker[w])

NotStarted(c) == pc[c] \in {"Pending", "Queued"}

(***************************************************************************)
(* C24.  No timeout: a handler whose peer never completes its request      *)
(* stays in AwaitingRequest and keeps its pool thread for ever; once every *)
(* pool thread runs such a handler, no connection that has not started is  *)
(* ever handled or answered.  Each part is a property of every step, so it *)
(* holds of every behaviour, those with fair scheduling of the threads     *)
(* among them: no step leaves the stalled state, and none starts a handler *)
(* once all threads are stalled.                                           *)
(***************************************************************************)
C24_StalledPeersStarveThePool ==
    /\ [][\A c \in Conns :
            Stalled(c) =>
                /\ pc'[c] = "AwaitingRequest"
                /\ \A w \in Threads : worker[w] = c => worker'[w] = c]_vars
    /\ [][AllStalled => AllStalled']_vars
    /\ [][AllStalled =>
            \A c \in Conns :
                NotStarted(c) =>
                    /\ pc'[c] \in {"Pending", "Queued", "Failed"}
                    /\ out'[c] = NoOutput
                    /\ \A w \in Threads : worker'[w] # c]_vars

\* every thread holds a stalled peer, every connection was accepted, and the
\* handler of a peer that sent its whole request waits in the queue
C24_Witness ==
    /\ AllStalled
    /\ incoming = 0
    /\ \E c \in Conns :
          /\ pc[c] = "Queued"
          /\ from_bytes(env[c]).st = "Ok"
          /\ queue = <<c>>


\* the number of bytes of the body the response r carries
BodyLen(r) == IF r.body.some THEN Len(r.body.bytes) ELSE 0

(***************************************************************************)
(* C25 as stated.  In every response handle_client builds (200, 400, 404,  *)
(* 500) the value of the Content-Length header is the number of bytes of   *)
(* the body the response carries.                                          *)
(***************************************************************************)
C25_ContentLengthIsBodyLength ==
    \A c \in Conns :
        Built(c) =>
            /\ H_Content_Length \in DOMAIN resp[c].headers
            /\ resp[c].headers[H_Content_Length] = to_string(BodyLen(resp[c]))


(***************************************************************************)
(* Two connections: a GET with HTTP/1.1 and a Host header, and a request   *)
(* of any supported method, version and header block, for any of the paths *)
(* that are served, missing or refused.                                    *)
(***************************************************************************)
HTTP_1_0 == <<"H", "T", "T", "P", "/", "1", ".", "0">>

PairPaths == {P_index, P_style, P_missing, P_traversal}

PairPeer(m, p, v, hs) ==
    [data |-> m \o SP \o p \o SP \o v \o CRLF \o hs \o CRLF, ending |-> "open", reads |-> TRUE,
     accepts |-> {MaxAccepts}, hashes |-> {InsertionOrder}]

PairInit ==
    /\ ServerInit(2, {PairPeer(m, p, v, hs) :
                         m \in {GET, HEAD, OPTIONS}, p \in PairPaths,
                         v \in {HTTP_1_1, HTTP_1_0}, hs \in {<<>>, HostX, ViaColon \o HostY}})
    /\ \E p \in PairPaths : env[1] = PairPeer(GET, p, HTTP_1_1, HostX)

PairSpec == PairInit /\ [][Next]_vars

ShortMessage == Stream(call.arg.lines[1], call.arg.ending)

(***************************************************************************)
(* C27.  A request line of more than three whitespace-separated tokens is  *)
(* not rejected: from_bytes takes the first three as method, path and      *)
(* version, so the line decodes to what the line of its first three tokens *)
(* decodes to; bytes after the empty line do not change the result.        *)
(***************************************************************************)
C27_ExtraTokensAndBodyIgnored ==
    (ParseDone /\ call.arg.kind = "long") =>
        /\ call.ret = from_bytes(ShortMessage)
        /\ NumTokens(FirstLine(ShortMessage.data)) = 3
        /\ call.ret.st \in {"Ok", "InvalidFormat"}
        /\ call.ret.st = "Ok" <=> from_str(FirstToken(FirstLine(call.arg.data))).ok

\* five tokens and a body decoded to the Request of the first three
C27_Witness ==
    /\ ParseDone
    /\ call.arg.kind = "long"
    /\ NumTokens(FirstLine(call.arg.data)) = 5
    /\ EndsWith(call.arg.data, CRLF \o <<"b", "o", "d", "y">>)
    /\ call.ret.st = "Ok"
    /\ call.ret.method = "HEAD"
    /\ call.ret.path = P_index
    /\ call.ret.http_version = HTTP_1_1
    /\ DOMAIN call.ret.headers = {Host_upper}

=============================================================================
